---- MODULE Spec2Model ----
(***************************************************************************)
(* Model of the personal finance ledger: the CSV-backed TransactionStore   *)
(* (src/main.py, class TransactionStore; src/generate_data.py, class CSV), *)
(* the aggregations computed by the Visualizer and by print_summary over a *)
(* loaded frame, and the interactive shell of src/main.py.                 *)
(*                                                                         *)
(* The backing file is a sequence of text lines, each a tuple of four text *)
(* fields.  Texts are TLA+ strings; splitting a date text into its fields  *)
(* and printing/parsing an amount are table lookups over the texts the     *)
(* model uses, the calendar checks and the ordering are computed.          *)
(***************************************************************************)
EXTENDS Integers, Sequences, FiniteSets, TLC

VARIABLES
    exists,     \* Path.exists() of the backing file
    lines,      \* the lines of the backing file, in file order
    op,         \* the last operation called and its arguments; in the shell,
                \* the prompt at which it waits and the texts read so far
    ret,        \* what the last store operation returned (a frame or an error)
    view        \* what the last aggregation computed from the frame in ret

vars == <<exists, lines, op, ret, view>>

----------------------------------------------------------------------------
(* Bounds *)

\* the most data rows appended to the backing file
MaxRows == 2

----------------------------------------------------------------------------
(* Texts and values *)

INCOME == "Income"

EXPENSE == "Expense"

COLUMNS == <<"date", "amount", "category", "description">>

\* Python None (and the empty string, equally falsy in "if start_date and end_date")
None == "None"

\* pandas missing value of a text column (an empty CSV field)
NaN == "NaN"

\* pandas missing timestamp (errors="coerce")
NaT == 0

\* dd-mm-yyyy texts and their three number fields; "31-02-2025" splits but is
\* no calendar date, "2-1-2025" is a date written without the leading zeros
DateFields ==
    ("01-01-2025" :> <<1, 1, 2025>>) @@
    ("02-01-2025" :> <<2, 1, 2025>>) @@
    ("2-1-2025" :> <<2, 1, 2025>>) @@
    ("01-02-2025" :> <<1, 2, 2025>>) @@
    ("31-02-2025" :> <<31, 2, 2025>>)

\* the float that is not a number, float("nan"): a number of the model that no
\* amount takes, compared and summed only through FloatLe and SumAmount
FloatNaN == -1

\* str(amount) as csv.DictWriter writes it
AmountText ==
    (0 :> "0.0") @@ (2 :> "2.0") @@ (3 :> "3.0") @@ (FloatNaN :> "nan")

\* texts pd.read_csv reads as a missing value (some of its default na_values)
NaValues == {"", "NA", "N/A", "NULL", "NaN", "nan", "null", "n/a"}

IsLeap(y) == (y % 4 = 0 /\ y % 100 # 0) \/ y % 400 = 0

DaysInMonth(m, y) ==
    IF m = 2 THEN (IF IsLeap(y) THEN 29 ELSE 28)
    ELSE IF m \in {4, 6, 9, 11} THEN 30 ELSE 31

\* datetime.strptime(s, "%d-%m-%Y"): the timestamp, ordered as the calendar is,
\* or NaT where strptime raises ValueError
Strptime(s) ==
    IF s \notin DOMAIN DateFields THEN NaT
    ELSE LET f == DateFields[s]
             d == f[1]
             m == f[2]
             y == f[3]
         IN  IF m \in 1..12 /\ y >= 1 /\ d >= 1 /\ d <= DaysInMonth(m, y)
             THEN y * 10000 + m * 100 + d
             ELSE NaT

\* pd.to_datetime(text, format=DATE_FORMAT, errors="coerce")
ToDatetime(s) == IF s = NaN THEN NaT ELSE Strptime(s)

\* read_csv's numeric parse of an amount field
ParseAmount(s) == CHOOSE a \in DOMAIN AmountText : AmountText[a] = s

\* read_csv's parse of a text field: an empty field is missing
ParseText(s) == IF s \in NaValues THEN NaN ELSE s

----------------------------------------------------------------------------
(* Inputs *)

\* amounts given to add_entry: one that the amount prompt would reject, one valid
Amounts == {0, 2}

\* dates given to add_entry: two calendar dates whose text order is the reverse
\* of their calendar order, and one text that is no date
EntryDates == {"02-01-2025", "01-02-2025", "31-02-2025"}

Categories == {INCOME, EXPENSE, "Transfer"}

Descriptions == {"Coffee"}

\* what add_entry is called with: every date and category with the valid
\* amount, and the amount the prompt would reject with one category
Entries ==
    {e \in [date : EntryDates, amount : Amounts, category : Categories,
            description : Descriptions] :
        e.amount > 0 \/ e.category = EXPENSE}

\* range bounds given to the load
RangeDates == {"02-01-2025", "01-02-2025"}

----------------------------------------------------------------------------
(* The backing file *)

\* csv.DictWriter(fieldnames=columns).writerow(new_entry)
WriteRow(e) == <<e.date, AmountText[e.amount], e.category, e.description>>

\* a slip of initialize: the header is written whatever the file holds
InitializedFileAlways(ex, ls) == <<COLUMNS>>

\* TransactionStore.initialize / CSV.initialize_csv: the file it leaves
InitializedFile(ex, ls) ==
    IF ~ex \/ Len(ls) = 0 THEN <<COLUMNS>> ELSE ls

\* pd.read_csv: the first line names the columns, every later line is a row
\* with index 0, 1, ...
ReadCsv(ls) ==
    [columns |-> ls[1],
     rows    |-> [i \in 1..(Len(ls) - 1) |->
                     [idx         |-> i - 1,
                      date        |-> ParseText(ls[i + 1][1]),
                      amount      |-> ParseAmount(ls[i + 1][2]),
                      category    |-> ParseText(ls[i + 1][3]),
                      description |-> ParseText(ls[i + 1][4])]]]

\* df["date"] = pd.to_datetime(...); df = df.dropna(subset=["date"])
RECURSIVE ParseDates(_)
ParseDates(rows) ==
    IF rows = <<>> THEN <<>>
    ELSE LET r == Head(rows)
             t == ToDatetime(r.date)
         IN  IF t = NaT THEN ParseDates(Tail(rows))
             ELSE <<[r EXCEPT !.date = t]>> \o ParseDates(Tail(rows))

\* mask = (df["date"] >= start) & (df["date"] <= end); df.loc[mask]
RECURSIVE RangeMask(_, _, _)
RangeMask(rows, start, end) ==
    IF rows = <<>> THEN <<>>
    ELSE LET r == Head(rows)
         IN  IF r.date >= start /\ r.date <= end
             THEN <<r>> \o RangeMask(Tail(rows), start, end)
             ELSE RangeMask(Tail(rows), start, end)

\* the sequence without its i-th element
RemoveAt(rows, i) == SubSeq(rows, 1, i - 1) \o SubSeq(rows, i + 1, Len(rows))

\* a slip of the load: the frame is returned in file order
SortValuesOmitted(rows) == {rows}

RECURSIVE SortValues(_)
\* df.sort_values("date"): the rows in ascending date order.  The default kind
\* is quicksort, which pandas does not promise to be stable, so among the rows
\* of the least date any one may come first: the set of the possible outcomes
SortValues(rows) ==
    IF rows = <<>> THEN {<<>>}
    ELSE LET least == {i \in 1..Len(rows) :
                          \A j \in 1..Len(rows) : rows[i].date <= rows[j].date}
         IN  UNION {{<<rows[i]>> \o s : s \in SortValues(RemoveAt(rows, i))} :
                       i \in least}

Frame(rows) == [status |-> "ok", rows |-> rows]

Raised(e) == [status |-> e, rows |-> <<>>]

NoReturn == [status |-> "none", rows |-> <<>>]

\* TransactionStore.get_transactions_df / CSV.get_transactions_df on the file
\* left by initialize(): the set of frames (or the error) it may return
GetTransactionsDfOf(ls, start_date, end_date) ==
    LET raw == ReadCsv(ls)
    IN  IF Len(raw.rows) = 0 THEN {Frame(<<>>)}
        ELSE IF "date" \notin {raw.columns[i] : i \in 1..Len(raw.columns)}
             THEN {Raised("KeyError")}
        ELSE LET parsed == ParseDates(raw.rows)
             IN  IF start_date # None /\ end_date # None
                 THEN LET start == Strptime(start_date)
                          end   == Strptime(end_date)
                      IN  IF start = NaT \/ end = NaT THEN {Raised("ValueError")}
                          ELSE {Frame(s) : s \in SortValues(RangeMask(parsed, start, end))}
                 ELSE {Frame(s) : s \in SortValues(parsed)}

----------------------------------------------------------------------------
(* Aggregations over a frame *)

RECURSIVE SumAmount(_)
\* Series.sum() of the amount column (skipna = True)
SumAmount(rows) ==
    IF rows = <<>> THEN 0
    ELSE (IF Head(rows).amount = FloatNaN THEN 0 ELSE Head(rows).amount)
         + SumAmount(Tail(rows))

\* df[df["category"] == c]
WhereCategory(rows, c) == SelectSeq(rows, LAMBDA r : r.category = c)

\* df.groupby("category")["amount"].sum(): one total per category that occurs;
\* groupby leaves out the rows whose key is missing (dropna=True)
GroupByCategory(rows) ==
    LET keys == {rows[i].category : i \in 1..Len(rows)} \ {NaN}
    IN  [k \in keys |-> SumAmount(WhereCategory(rows, k))]

\* a slip of the signed amount: only Expense rows are subtracted
SignedAmountExpenseOnly(r) ==
    IF r.category = INCOME THEN r.amount
    ELSE IF r.category = EXPENSE THEN 0 - r.amount ELSE 0

\* df["amount"].where(df["category"] == "Income", -df["amount"])
SignedAmount(r) == IF r.category = INCOME THEN r.amount ELSE 0 - r.amount

RECURSIVE CumSum(_, _)
\* df["signed_amount"].cumsum(), carried from acc, over rows in the order given
CumSum(rows, acc) ==
    IF rows = <<>> THEN <<>>
    ELSE LET r == Head(rows)
             c == acc + SignedAmount(r)
         IN  <<[idx |-> r.idx, date |-> r.date, category |-> r.category,
                amount |-> r.amount, signed_amount |-> SignedAmount(r),
                cumulative |-> c]>> \o CumSum(Tail(rows), c)

\* a slip of the totals: the category mask is left out
TotalOfEveryCategory(rows, c) == SumAmount(rows)

\* total_income, total_expense as get_transactions and dashboard compute them
TotalOf(rows, c) == SumAmount(WhereCategory(rows, c))

NoView == [name |-> "none", summary |-> <<>>, series |-> <<>>,
           total_income |-> 0, total_expense |-> 0, net_savings |-> 0,
           num_transactions |-> 0, date_range |-> <<>>, by_desc |-> <<>>,
           printed |-> "nothing"]

\* requires_data returned before calling the function
NoData(name) == [NoView EXCEPT !.name = name]

----------------------------------------------------------------------------
(* The store's operations *)

Init ==
    /\ exists \in BOOLEAN
    /\ lines = <<>>
    /\ op = [name |-> "new", entry |-> None, start |-> None, end |-> None]
    /\ ret = NoReturn
    /\ view = NoView

\* TransactionStore.initialize
Initialize ==
    /\ lines' = InitializedFile(exists, lines)
    /\ exists' = TRUE
    /\ op' = [name |-> "initialize", entry |-> None, start |-> None, end |-> None]
    /\ ret' = NoReturn
    /\ view' = NoView

\* a slip of add_entry: an amount <= 0 raises and nothing is written
AddEntryValidating(e) ==
    /\ Len(SelectSeq(lines, LAMBDA l : l # COLUMNS)) < MaxRows
    /\ lines' = IF e.amount <= 0 THEN lines ELSE Append(lines, WriteRow(e))
    /\ exists' = IF e.amount <= 0 THEN exists ELSE TRUE
    /\ op' = [name |-> "add_entry", entry |-> e, start |-> None, end |-> None]
    /\ ret' = IF e.amount <= 0 THEN Raised("ValidationError") ELSE NoReturn
    /\ view' = NoView

\* a slip of add_entry: the file is opened with "w" and rewritten
AddEntryRewriting(e) ==
    /\ Len(SelectSeq(lines, LAMBDA l : l # COLUMNS)) < MaxRows
    /\ lines' = <<WriteRow(e)>>
    /\ exists' = TRUE
    /\ op' = [name |-> "add_entry", entry |-> e, start |-> None, end |-> None]
    /\ ret' = NoReturn
    /\ view' = NoView

\* TransactionStore.add_entry: open(filepath, "a") creates a missing file and
\* writes at the end of an existing one
AddEntry(e) ==
    /\ Len(SelectSeq(lines, LAMBDA l : l # COLUMNS)) < MaxRows
    /\ lines' = Append(lines, WriteRow(e))
    /\ exists' = TRUE
    /\ op' = [name |-> "add_entry", entry |-> e, start |-> None, end |-> None]
    /\ ret' = NoReturn
    /\ view' = NoView

\* TransactionStore.get_transactions_df(start_date, end_date)
GetTransactionsDf(start_date, end_date) ==
    /\ lines' = InitializedFile(exists, lines)
    /\ exists' = TRUE
    /\ op' = [name |-> "get_transactions_df", entry |-> None,
              start |-> start_date, end |-> end_date]
    /\ ret' \in GetTransactionsDfOf(lines', start_date, end_date)
    /\ view' = NoView

\* TransactionStore.get_transactions(start_date, end_date): the load, then the
\* printed income/expense summary of a frame that is not empty
GetTransactions(start_date, end_date) ==
    /\ lines' = InitializedFile(exists, lines)
    /\ exists' = TRUE
    /\ op' = [name |-> "get_transactions", entry |-> None,
              start |-> start_date, end |-> end_date]
    /\ ret' \in GetTransactionsDfOf(lines', start_date, end_date)
    /\ view' = IF ret'.status # "ok" \/ ret'.rows = <<>> THEN NoView
               ELSE [NoView EXCEPT
                        !.name = "summary",
                        !.total_income = TotalOf(ret'.rows, INCOME),
                        !.total_expense = TotalOf(ret'.rows, EXPENSE),
                        !.net_savings = TotalOf(ret'.rows, INCOME)
                                        - TotalOf(ret'.rows, EXPENSE)]

----------------------------------------------------------------------------
(* The Visualizer's aggregations, applied to the frame a load returned *)

\* Visualizer.income_vs_expense_bar
IncomeVsExpenseBar ==
    /\ ret.status = "ok"
    /\ view' = IF ret.rows = <<>> THEN NoData("income_vs_expense_bar")
               ELSE [NoView EXCEPT !.name = "income_vs_expense_bar",
                                   !.summary = GroupByCategory(ret.rows)]
    /\ UNCHANGED <<exists, lines, op, ret>>

\* Visualizer.cumulative_savings
CumulativeSavings ==
    /\ ret.status = "ok"
    /\ IF ret.rows = <<>> THEN view' = NoData("cumulative_savings")
       ELSE \E sorted \in SortValues(ret.rows) :
               view' = [NoView EXCEPT !.name = "cumulative_savings",
                                      !.series = CumSum(sorted, 0)]
    /\ UNCHANGED <<exists, lines, op, ret>>

\* Visualizer.dashboard: the cumulative column is computed over one date sort
\* and plotted over a second sort of the same frame, which orders it alike
Dashboard ==
    /\ ret.status = "ok"
    /\ IF ret.rows = <<>> THEN view' = NoData("dashboard")
       ELSE \E sorted_df \in SortValues(ret.rows) :
               view' = [NoView EXCEPT
                        !.name = "dashboard",
                        !.summary = GroupByCategory(ret.rows),
                        !.series = CumSum(sorted_df, 0),
                        !.total_income = TotalOf(ret.rows, INCOME),
                        !.total_expense = TotalOf(ret.rows, EXPENSE),
                        !.net_savings = TotalOf(ret.rows, INCOME)
                                        - TotalOf(ret.rows, EXPENSE)]
    /\ UNCHANGED <<exists, lines, op, ret>>

----------------------------------------------------------------------------
(* The breakdown by description: groupby("description"), the sum of the
   amounts of each group, the sort by total and the first top_n entries *)

\* the descriptions of the model in the order of their texts, which is the
\* order groupby gives its keys
DescName ==
    <<"Clothing", "Coffee", "Gas", "Groceries", "Haircut", "Internet", "Rent",
      "Uber/Lyft">>

KeyRank(d) == CHOOSE i \in 1..Len(DescName) : DescName[i] = d

\* the rows of one description
WhereDescription(rows, d) == SelectSeq(rows, LAMBDA r : r.description = d)

\* groupby("description")["amount"].sum(): one entry per description that is
\* not NaN, in the order of the keys
GroupByDescription(rows) ==
    LET keys == {rows[i].description : i \in 1..Len(rows)} \ {NaN}
        KeyAt(k) == CHOOSE d \in keys :
                        Cardinality({e \in keys : KeyRank(e) < KeyRank(d)}) = k - 1
    IN  [k \in 1..Cardinality(keys) |->
            [description |-> KeyAt(k),
             amount |-> SumAmount(WhereDescription(rows, KeyAt(k)))]]

\* a slip of the sort: ascending = True
RECURSIVE SortByAmountAscending(_)
SortByAmountAscending(entries) ==
    IF entries = <<>> THEN {<<>>}
    ELSE UNION {
            {<<entries[i]>> \o rest :
                rest \in SortByAmountAscending(RemoveAt(entries, i))} :
            i \in {j \in 1..Len(entries) :
                     \A k \in 1..Len(entries) :
                        entries[j].amount <= entries[k].amount}}

\* sort_values(ascending = False) with the default quicksort, which is not
\* stable: every descending order of the totals, entries of equal total in
\* any order
RECURSIVE SortByAmountDescending(_)
SortByAmountDescending(entries) ==
    IF entries = <<>> THEN {<<>>}
    ELSE UNION {
            {<<entries[i]>> \o rest :
                rest \in SortByAmountDescending(RemoveAt(entries, i))} :
            i \in {j \in 1..Len(entries) :
                     \A k \in 1..Len(entries) :
                        entries[j].amount >= entries[k].amount}}

\* the title of the pie chart of a category
BreakdownTitle(category) ==
    IF category = INCOME THEN "Income Breakdown by Description"
    ELSE "Expense Breakdown by Description"

\* Visualizer.category_pie_chart(df, category): what it shows
CategoryPieChartOf(rows, category) ==
    LET filtered == WhereCategory(rows, category)
    IN  IF rows = <<>> THEN NoData("category_pie_chart")
        ELSE IF filtered = <<>>
             THEN [NoData("category_pie_chart") EXCEPT
                      !.printed = "No data of the category to visualize."]
        ELSE [NoView EXCEPT !.name = "category_pie_chart",
                            !.by_desc = GroupByDescription(filtered),
                            !.printed = BreakdownTitle(category)]

\* Visualizer.category_pie_chart
CategoryPieChart(category) ==
    /\ ret.status = "ok"
    /\ view' = CategoryPieChartOf(ret.rows, category)
    /\ UNCHANGED <<exists, lines, op, ret>>

\* head(n)
HeadOf(s, n) == SubSeq(s, 1, IF Len(s) < n THEN Len(s) ELSE n)

\* the number of entries print_summary keeps: head(5)
TopN == 5

\* min and max of the date column
DateRange(rows) ==
    LET ds == {rows[i].date : i \in 1..Len(rows)}
    IN  <<CHOOSE d \in ds : \A e \in ds : d <= e,
          CHOOSE d \in ds : \A e \in ds : d >= e>>

\* a slip of print_summary: the summary of an empty frame is computed
PrintSummaryOfEmpty ==
    /\ ret.status = "ok"
    /\ LET expenses == WhereCategory(ret.rows, EXPENSE)
       IN  \E sorted \in SortByAmountDescending(GroupByDescription(expenses)) :
              view' = [NoView EXCEPT
                   !.name = "print_summary",
                   !.total_income = TotalOf(ret.rows, INCOME),
                   !.total_expense = TotalOf(ret.rows, EXPENSE),
                   !.net_savings = TotalOf(ret.rows, INCOME)
                                   - TotalOf(ret.rows, EXPENSE),
                   !.num_transactions = Len(ret.rows),
                   !.date_range = IF ret.rows = <<>> THEN <<>>
                                  ELSE DateRange(ret.rows),
                   !.by_desc = IF expenses = <<>> THEN <<>>
                               ELSE HeadOf(sorted, TopN),
                   !.printed = "FINANCIAL SUMMARY"]
    /\ UNCHANGED <<exists, lines, op, ret>>

\* print_summary(df)
PrintSummary ==
    /\ ret.status = "ok"
    /\ IF ret.rows = <<>>
       THEN view' = [NoData("print_summary") EXCEPT
                        !.printed = "No data available."]
       ELSE LET expenses == WhereCategory(ret.rows, EXPENSE)
            IN  \E sorted \in SortByAmountDescending(GroupByDescription(expenses)) :
                   view' = [NoView EXCEPT
                        !.name = "print_summary",
                        !.total_income = TotalOf(ret.rows, INCOME),
                        !.total_expense = TotalOf(ret.rows, EXPENSE),
                        !.net_savings = TotalOf(ret.rows, INCOME)
                                        - TotalOf(ret.rows, EXPENSE),
                        !.num_transactions = Len(ret.rows),
                        !.date_range = DateRange(ret.rows),
                        !.by_desc = IF expenses = <<>> THEN <<>>
                                    ELSE HeadOf(sorted, TopN),
                        !.printed = "FINANCIAL SUMMARY"]
    /\ UNCHANGED <<exists, lines, op, ret>>

----------------------------------------------------------------------------
(* Specification of the store: any sequence of its operations on one file *)

Next ==
    \/ Initialize
    \/ \E e \in Entries : AddEntry(e)
    \/ \E s, t \in RangeDates \cup {None} : GetTransactionsDf(s, t)
    \/ \E s, t \in RangeDates : GetTransactions(s, t)
    \/ IncomeVsExpenseBar
    \/ PrintSummary

Spec == Init /\ [][Next]_vars

----------------------------------------------------------------------------
(* Specification of the aggregations: any frame a caller may pass *)

\* the most records in a frame passed to an aggregation
MaxRecs == 2

FrameDates == {Strptime("02-01-2025"), Strptime("01-02-2025")}

FrameAmounts == {2, 3}

FrameCategories == {INCOME, EXPENSE, "Transfer", NaN}

FrameDescriptions == {"Coffee", NaN}

FrameRecords ==
    [date : FrameDates, amount : FrameAmounts, category : FrameCategories,
     description : FrameDescriptions]

\* a frame of n records with the index 0..n-1, in any order of dates
FramesOf(n) ==
    {[i \in 1..n |-> [idx |-> i - 1, date |-> f[i].date, amount |-> f[i].amount,
                      category |-> f[i].category,
                      description |-> f[i].description]] :
        f \in [1..n -> FrameRecords]}

InitAgg ==
    /\ exists = TRUE
    /\ lines = <<COLUMNS>>
    /\ op = [name |-> "frame", entry |-> None, start |-> None, end |-> None]
    /\ \E n \in 0..MaxRecs : \E rows \in FramesOf(n) : ret = Frame(rows)
    /\ view = NoView

NextAgg ==
    \/ IncomeVsExpenseBar
    \/ CumulativeSavings
    \/ Dashboard

SpecAgg == InitAgg /\ [][NextAgg]_vars

----------------------------------------------------------------------------
(* Vocabulary of the properties *)

IsLoad == op.name \in {"get_transactions_df", "get_transactions"}

\* the rows appended to the backing file so far, in the order appended
StoredRows == SelectSeq(lines, LAMBDA l : l # COLUMNS)

Parsable(l) == Strptime(l[1]) # NaT

\* a valid record: parsable date, amount > 0, category Income or Expense
ValidRow(l) ==
    Parsable(l) /\ ParseAmount(l[2]) > 0 /\ l[3] \in {INCOME, EXPENSE}

\* the loaded row r is the stored row l
IsRow(r, l) ==
    /\ r.date = Strptime(l[1])
    /\ r.amount = ParseAmount(l[2])
    /\ r.category = l[3]
    /\ r.description = l[4]

Occurrences(rows, l) == Cardinality({i \in 1..Len(rows) : IsRow(rows[i], l)})

Copies(ls, l) == Cardinality({i \in 1..Len(ls) : ls[i] = l})

RangeSupplied == op.start # None /\ op.end # None

InRange(l) ==
    /\ Parsable(l)
    /\ Strptime(op.start) <= Strptime(l[1])
    /\ Strptime(l[1]) <= Strptime(op.end)

\* the stored rows the last load was asked for
Wanted ==
    SelectSeq(StoredRows,
              LAMBDA l : Parsable(l) /\ (RangeSupplied => InRange(l)))

\* the loaded rows are exactly the wanted stored rows, each as often as stored
ReturnsWanted ==
    /\ ret.status = "ok"
    /\ Len(ret.rows) = Len(Wanted)
    /\ \A i \in 1..Len(Wanted) :
          Occurrences(ret.rows, Wanted[i]) = Copies(Wanted, Wanted[i])

----------------------------------------------------------------------------
(* C1: once a valid record has been appended, every later load() without a *)
(* date range returns a result that contains that record.                  *)
C1_AppendedRecordIsLoaded ==
    (op.name = "get_transactions_df" /\ op.start = None /\ op.end = None) =>
        \A i \in 1..Len(StoredRows) :
            ValidRow(StoredRows[i]) =>
                /\ ret.status = "ok"
                /\ Occurrences(ret.rows, StoredRows[i])
                       >= Copies(StoredRows, StoredRows[i])

(* C2: with both start and end supplied, the load returns exactly the      *)
(* stored rows whose date parses and lies in [start, end], bounds included.*)
C2_RangeLoadIsExact ==
    (IsLoad /\ RangeSupplied) =>
        /\ ReturnsWanted
        /\ \A i \in 1..Len(ret.rows) :
              /\ Strptime(op.start) <= ret.rows[i].date
              /\ ret.rows[i].date <= Strptime(op.end)

(* C3, as claimed: add_entry with amount <= 0 fails with a ValidationError *)
(* and adds no row to the backing file.                                    *)
C3_NonPositiveAmountRejected ==
    [][(op'.name = "add_entry" /\ op'.entry.amount <= 0) =>
          (ret'.status = "ValidationError" /\ lines' = lines)]_vars

(* C3, amended: add_entry does not validate the amount: called with an     *)
(* amount <= 0 it returns normally and adds exactly one row, carrying that *)
(* amount, at the end of the backing file.                                 *)
C3_NonPositiveAmountAppended ==
    [][(op'.name = "add_entry" /\ op'.entry.amount <= 0) =>
          /\ ret'.status = "none"
          /\ Len(lines') = Len(lines) + 1
          /\ ParseAmount(lines'[Len(lines')][2]) = op'.entry.amount
          /\ ParseAmount(lines'[Len(lines')][2]) <= 0]_vars

C3_Witness ==
    /\ op.name = "add_entry"
    /\ op.entry.amount <= 0
    /\ Len(lines) >= 2
    /\ lines[1] = COLUMNS
    /\ lines[Len(lines)][2] = "0.0"

(* C4: add_entry adds exactly one row at the end of the backing file and   *)
(* leaves every earlier line as it was and where it was; over any sequence *)
(* of initialize, add_entry and loads the file only grows by extension.    *)
C4_AppendOnly ==
    [][/\ Len(lines') >= Len(lines)
       /\ SubSeq(lines', 1, Len(lines)) = lines
       /\ op'.name = "add_entry" =>
             /\ Len(lines') = Len(lines) + 1
             /\ lines'[Len(lines')] = <<op'.entry.date, AmountText[op'.entry.amount],
                                        op'.entry.category, op'.entry.description>>
       /\ op'.name # "add_entry" => Len(StoredRows') = Len(StoredRows)]_vars

C4_Witness ==
    /\ op.name = "add_entry"
    /\ Len(lines) = 3
    /\ lines[1] = COLUMNS
    /\ lines[2] # lines[3]

(* C5: initialize turns a missing or zero-length file into the header-only *)
(* file, changes nothing in a non-empty file, never raises, and called     *)
(* again right after itself changes nothing.                               *)
C5_InitializeIdempotent ==
    [][op'.name = "initialize" =>
          /\ exists'
          /\ ret'.status = "none"
          /\ (~exists \/ Len(lines) = 0) =>
                lines' = <<<<"date", "amount", "category", "description">>>>
          /\ (exists /\ Len(lines) > 0) => lines' = lines
          /\ op.name = "initialize" => (lines' = lines /\ exists' = exists)]_vars

C5_Witness ==
    /\ op.name = "initialize"
    /\ exists
    /\ lines = <<COLUMNS>>

(* C6: every frame a load returns, with or without a range, is in ascending *)
(* date order.                                                             *)
C6_LoadSorted ==
    (IsLoad /\ ret.status = "ok") =>
        \A i, j \in 1..Len(ret.rows) :
            i < j => ret.rows[i].date <= ret.rows[j].date

C6_Witness ==
    /\ IsLoad
    /\ ret.status = "ok"
    /\ Len(ret.rows) = 2
    /\ ret.rows[1].idx > ret.rows[2].idx
    /\ ret.rows[1].date < ret.rows[2].date

(* C7: a stored row whose date does not parse appears in no load result,   *)
(* and with such a row in the file the load still succeeds and returns     *)
(* every stored row whose date parses (and lies in the range, if given).   *)
C7_UnparsableRowsDropped ==
    (IsLoad /\ \E i \in 1..Len(StoredRows) : ~Parsable(StoredRows[i])) =>
        /\ ReturnsWanted
        /\ \A i \in 1..Len(ret.rows) : ret.rows[i].date # NaT
        /\ \A i \in 1..Len(StoredRows) :
              ~Parsable(StoredRows[i]) =>
                  \A k \in 1..Len(ret.rows) :
                      ret.rows[k].date # Strptime(StoredRows[i][1])

RECURSIVE AmountsWhere(_, _)
\* the sum of the amounts of the rows of category c
AmountsWhere(rows, c) ==
    IF rows = <<>> THEN 0
    ELSE (IF Head(rows).category = c THEN Head(rows).amount ELSE 0)
         + AmountsWhere(Tail(rows), c)

(* C10: a stored row of a category other than Income and Expense does not  *)
(* make the load fail, and its amount is in neither the Income nor the     *)
(* Expense total of the summary and of the category totals.                *)
C10_UnknownCategoryTolerated ==
    (\E i \in 1..Len(StoredRows) : StoredRows[i][3] \notin {INCOME, EXPENSE}) =>
        /\ IsLoad => ret.status = "ok"
        /\ view.name = "summary" =>
              /\ view.total_income = AmountsWhere(ret.rows, INCOME)
              /\ view.total_expense = AmountsWhere(ret.rows, EXPENSE)
        /\ (view.name = "income_vs_expense_bar" /\ ret.rows # <<>>) =>
              \A c \in {INCOME, EXPENSE} \cap DOMAIN view.summary :
                  view.summary[c] = AmountsWhere(ret.rows, c)

----------------------------------------------------------------------------
(* Properties of the aggregations, under SpecAgg *)

\* the record of the frame with index k
RecordAt(k) == ret.rows[CHOOSE i \in 1..Len(ret.rows) : ret.rows[i].idx = k]

\* +amount for Income, -amount for every other category
Signed(r) == IF r.category = "Income" THEN r.amount ELSE 0 - r.amount

IsCumulative == view.name \in {"cumulative_savings", "dashboard"} /\ ret.rows # <<>>

\* cumulative[0] = signed[0], cumulative[i] - cumulative[i-1] = signed[i]
RunningSum ==
    /\ Len(view.series) = Len(ret.rows)
    /\ view.series[1].cumulative = Signed(RecordAt(view.series[1].idx))
    /\ \A i \in 2..Len(view.series) :
          view.series[i].cumulative - view.series[i - 1].cumulative
              = Signed(RecordAt(view.series[i].idx))

\* the series lists the records in the order of the frame
InputOrderKept ==
    /\ Len(view.series) = Len(ret.rows)
    /\ \A i \in 1..Len(view.series) : view.series[i].idx = ret.rows[i].idx

StrictlyAscending(rows) ==
    \A i \in 1..(Len(rows) - 1) : rows[i].date < rows[i + 1].date

(* C8, as claimed: for every record set the cumulative balance keeps the   *)
(* input order and is the running sum of the signed amounts.               *)
C8_OrderKeptAndRunningSum ==
    IsCumulative => (InputOrderKept /\ RunningSum)

(* C8, amended: for every record set the cumulative balance lists every    *)
(* record once, in ascending date order, which is the input order when the *)
(* input is strictly ascending by date, and over that order it is the      *)
(* running sum of the signed amounts: +amount for Income, -amount for every *)
(* other category, unrecognized ones included.                             *)
C8_SortedRunningSum ==
    IsCumulative =>
        /\ RunningSum
        /\ {view.series[i].idx : i \in 1..Len(view.series)}
               = {ret.rows[i].idx : i \in 1..Len(ret.rows)}
        /\ \A i \in 1..(Len(view.series) - 1) :
              view.series[i].date <= view.series[i + 1].date
        /\ StrictlyAscending(ret.rows) => InputOrderKept

C8_Witness ==
    /\ IsCumulative
    /\ Len(ret.rows) = 2
    /\ StrictlyAscending(ret.rows)
    /\ ret.rows[1].category = "Income"
    /\ ret.rows[2].category = "Transfer"
    /\ view.series[2].cumulative = ret.rows[1].amount - ret.rows[2].amount

RECURSIVE SumOfTotals(_, _)
\* the sum of the totals f[k] over the categories k of ks
SumOfTotals(f, ks) ==
    IF ks = {} THEN 0
    ELSE LET k == CHOOSE x \in ks : TRUE
         IN  f[k] + SumOfTotals(f, ks \ {k})

(* C9: the category totals hold only categories that occur in the input,   *)
(* and the sum of the totals is the sum of the amounts of all the records. *)
C9_TotalsConserveAmounts ==
    (view.name = "income_vs_expense_bar" /\ ret.rows # <<>>) =>
        /\ DOMAIN view.summary \subseteq
               {ret.rows[i].category : i \in 1..Len(ret.rows)}
        /\ SumOfTotals(view.summary, DOMAIN view.summary) = SumAmount(ret.rows)

----------------------------------------------------------------------------
(* Where C1, C2, C7, C9 and C10 do hold *)

\* the file begins with the header line: initialize ran before the first append
HasHeader == lines # <<>> /\ lines[1] = COLUMNS

\* C1 on a file that begins with the header
OnInitializedFile_C1 == HasHeader => C1_AppendedRecordIsLoaded

\* C2 on a file that begins with the header
OnInitializedFile_C2 == HasHeader => C2_RangeLoadIsExact

\* C7 on a file that begins with the header
OnInitializedFile_C7 == HasHeader => C7_UnparsableRowsDropped

\* C10 on a file that begins with the header
OnInitializedFile_C10 == HasHeader => C10_UnknownCategoryTolerated

\* C9 on a record set in which no category is missing
WithoutMissingCategory_C9 ==
    (\A i \in 1..Len(ret.rows) : ret.rows[i].category # NaN)
        => C9_TotalsConserveAmounts


----------------------------------------------------------------------------
(* Specification of the breakdown: frames of few records in any order, and
   frames of one record per description, up to MaxGroups descriptions *)

\* the most descriptions in a frame passed to the breakdown
MaxGroups == 6

TopDescriptions == {"Coffee", "Rent", NaN}

TopCategories == {INCOME, EXPENSE}

TopRecords ==
    [date : {Strptime("02-01-2025")}, amount : FrameAmounts,
     category : TopCategories, description : TopDescriptions]

\* frames of up to MaxRecs records in any order
ShortFrames ==
    UNION {{[i \in 1..n |-> [idx |-> i - 1, date |-> f[i].date,
                             amount |-> f[i].amount,
                             category |-> f[i].category,
                             description |-> f[i].description]] :
               f \in [1..n -> TopRecords]} : n \in 0..MaxRecs}

\* frames of one Expense record for each of the first n descriptions, the
\* amounts growing with the description so that at most two totals are equal
WideFrames ==
    UNION {{[i \in 1..n |-> [idx |-> i - 1, date |-> Strptime("02-01-2025"),
                             amount |-> f[i] + i - 1, category |-> EXPENSE,
                             description |-> DescName[i]]] :
               f \in [1..n -> FrameAmounts]} : n \in 1..MaxGroups}

InitTop ==
    /\ exists = TRUE
    /\ lines = <<COLUMNS>>
    /\ op = [name |-> "frame", entry |-> None, start |-> None, end |-> None]
    /\ \E rows \in ShortFrames \cup WideFrames : ret = Frame(rows)
    /\ view = NoView

NextTop ==
    \/ PrintSummary
    \/ \E category \in TopCategories : CategoryPieChart(category)

SpecTop == InitTop /\ [][NextTop]_vars


----------------------------------------------------------------------------
(* Properties of the breakdown, under SpecTop *)

RECURSIVE AmountsOfDescription(_, _, _)
\* the sum of the amounts of the records of category c and description d
AmountsOfDescription(rows, c, d) ==
    IF rows = <<>> THEN 0
    ELSE (IF Head(rows).category = c /\ Head(rows).description = d
          THEN Head(rows).amount ELSE 0)
         + AmountsOfDescription(Tail(rows), c, d)

\* print_summary printed the summary of a frame that holds an Expense record
IsTopExpenses ==
    /\ view.name = "print_summary"
    /\ \E i \in 1..Len(ret.rows) : ret.rows[i].category = "Expense"

\* the descriptions of the Expense records, a missing description left out
ExpenseDescriptions ==
    {ret.rows[i].description :
        i \in {j \in 1..Len(ret.rows) : ret.rows[j].category = "Expense"}}
      \ {NaN}

\* the descriptions the breakdown lists
Listed == {view.by_desc[i].description : i \in 1..Len(view.by_desc)}

\* the position of the first Expense record of description d
FirstSeen(d) ==
    CHOOSE i \in 1..Len(ret.rows) :
        /\ ret.rows[i].category = "Expense" /\ ret.rows[i].description = d
        /\ \A j \in 1..(i - 1) :
              ~(ret.rows[j].category = "Expense" /\ ret.rows[j].description = d)

\* every entry is a description of the Expense records with its total, no
\* description is listed twice, and no description left out has a total
\* greater than a listed one
LargestTotals ==
    /\ Listed \subseteq ExpenseDescriptions
    /\ Cardinality(Listed) = Len(view.by_desc)
    /\ \A i \in 1..Len(view.by_desc) :
          /\ view.by_desc[i].amount
                = AmountsOfDescription(ret.rows, "Expense",
                                       view.by_desc[i].description)
          /\ \A d \in ExpenseDescriptions \ Listed :
                view.by_desc[i].amount
                    >= AmountsOfDescription(ret.rows, "Expense", d)

(* C11, as claimed: the breakdown with top_n = 5 has at most 5 entries,    *)
(* they are the descriptions with the largest totals of the category, each *)
(* total is strictly greater than the next, and descriptions of equal      *)
(* totals are in the order in which they were first encountered.           *)
C11_StrictlyDescendingTop5 ==
    IsTopExpenses =>
        /\ Len(view.by_desc) <= 5
        /\ LargestTotals
        /\ \A i \in 1..(Len(view.by_desc) - 1) :
              view.by_desc[i].amount > view.by_desc[i + 1].amount
        /\ \A i, j \in 1..Len(view.by_desc) :
              (i < j /\ view.by_desc[i].amount = view.by_desc[j].amount)
                 => FirstSeen(view.by_desc[i].description)
                        < FirstSeen(view.by_desc[j].description)

(* C11, amended: the breakdown with top_n = 5 has 5 entries, or one entry  *)
(* for each description of the category when there are fewer than 5, they  *)
(* are the descriptions with the largest totals of the category, and each  *)
(* total is greater than or equal to the next; descriptions of equal       *)
(* totals are in no particular order.                                      *)
C11_DescendingTop5 ==
    IsTopExpenses =>
        /\ Len(view.by_desc) <= 5
        /\ Len(view.by_desc) = 5
              \/ Len(view.by_desc) = Cardinality(ExpenseDescriptions)
        /\ LargestTotals
        /\ \A i \in 1..(Len(view.by_desc) - 1) :
              view.by_desc[i].amount >= view.by_desc[i + 1].amount

\* six descriptions, five listed, two listed totals equal and the total left
\* out less than a listed one
C11_Witness ==
    /\ IsTopExpenses
    /\ Cardinality(ExpenseDescriptions) = 6
    /\ Len(view.by_desc) = 5
    /\ view.by_desc[1].amount > view.by_desc[2].amount
    /\ view.by_desc[4].amount = view.by_desc[5].amount
    /\ \E d \in ExpenseDescriptions \ Listed :
          AmountsOfDescription(ret.rows, "Expense", d) < view.by_desc[5].amount

\* two descriptions of equal totals listed against the order of encounter
TiesAgainstEncounterOrder ==
    /\ IsTopExpenses
    /\ Len(view.by_desc) = 2
    /\ view.by_desc[1].amount = view.by_desc[2].amount
    /\ FirstSeen(view.by_desc[1].description)
          > FirstSeen(view.by_desc[2].description)


----------------------------------------------------------------------------
(* The interactive shell: main(), add(), visualize_menu() and the prompts.
   op.name is the prompt at which the shell waits, op.input the text read
   last, op.entry the fields of the new entry read so far, op.start and
   op.end the range read so far *)

\* datetime.today().strftime(DATE_FORMAT) on the day of the session
Today == "01-02-2025"

\* str.strip() of the texts typed
Strip(s) == IF s = " " THEN "" ELSE s

\* str.upper() of the texts typed
Upper(s) == IF s = "e" THEN "E" ELSE IF s = "i" THEN "I" ELSE s

\* parsed.strftime(DATE_FORMAT): day and month with two digits
Strftime(t) ==
    CHOOSE s \in DOMAIN DateFields \ {"2-1-2025"} : Strptime(s) = t

\* float(text) of the texts that are floats; float raises ValueError on the
\* others
FloatOf == ("2" :> 2) @@ ("0" :> 0) @@ ("-2" :> (0 - 2)) @@ ("nan" :> FloatNaN)

\* a <= b of two floats: False when one of them is nan
FloatLe(a, b) == a # FloatNaN /\ b # FloatNaN /\ a <= b

\* what one pass of a prompt loop does with the text read: it returns a value
\* or it prints a message and reads again
Returned(v) == [ok |-> TRUE, value |-> v, message |-> ""]

Again(m) == [ok |-> FALSE, value |-> None, message |-> m]

\* one pass of get_date(prompt, allow_default)
GetDate(text, allow_default) ==
    LET date_str == Strip(text)
    IN  IF allow_default /\ date_str = "" THEN Returned(Today)
        ELSE IF Strptime(date_str) = NaT THEN Again("Invalid date format.")
        ELSE Returned(Strftime(Strptime(date_str)))

\* one pass of get_amount()
GetAmount(text) ==
    IF text \notin DOMAIN FloatOf THEN Again("could not convert string to float")
    ELSE IF FloatLe(FloatOf[text], 0) THEN Again("Amount must be positive.")
    ELSE Returned(FloatOf[text])

\* one pass of get_category()
GetCategory(text) ==
    LET choice == Upper(text)
    IN  IF choice = "I" THEN Returned(INCOME)
        ELSE IF choice = "E" THEN Returned(EXPENSE)
        ELSE Again("Invalid category.")

\* get_description()
GetDescription(text) == Strip(text)

\* the texts typed at the prompts
DateInputs == {"02-01-2025", "2-1-2025", "01-02-2025", "", "31-02-2025"}

AmountInputs == {"2", "0", "-2", "nan", "abc"}

CategoryInputs == {"I", "e", "X"}

DescriptionInputs == {"Coffee", " "}

MainInputs == {"1", "2", "3", "4", "9"}

VisualizeInputs == {"1", "4", "5", "8", "9"}

\* visualize_menu's menu_options: the figure each choice shows
MenuOptions ==
    [c \in {"1", "2", "3", "4", "5", "6", "7"} |->
        CASE c = "1" -> "income_vs_expense_bar"
          [] c = "2" -> "spending_over_time"
          [] c = "3" -> "monthly_summary"
          [] c = "4" -> "category_pie_chart"
          [] c = "5" -> "category_pie_chart"
          [] c = "6" -> "cumulative_savings"
          [] c = "7" -> "dashboard"]

Said(m) == [NoView EXCEPT !.printed = m]

At(name) == op.name = name

\* the shell waits at the prompt name, having read text
Prompt(name, text) == [op EXCEPT !.name = name, !.input = text]

\* the shell is back at the prompt of the main menu, having read text: the
\* fields read by add(), by choice 2 and by visualize_menu() are gone
MainPrompt(text) ==
    [name |-> "main.choice", input |-> text, entry |-> <<>>,
     start |-> None, end |-> None]

InitShell ==
    /\ \/ exists = FALSE /\ lines = <<>>
       \/ exists = TRUE /\ lines = <<COLUMNS>>
    /\ op = [name |-> "main", input |-> None, entry |-> <<>>,
             start |-> None, end |-> None]
    /\ ret = NoReturn
    /\ view = NoView

\* main() up to its first prompt: store.initialize()
Main ==
    /\ At("main")
    /\ lines' = InitializedFile(exists, lines)
    /\ exists' = TRUE
    /\ op' = MainPrompt(None)
    /\ UNCHANGED <<ret, view>>

\* main(): one pass of the menu loop; choice 1 runs add() up to its first
\* prompt, which is store.initialize()
MainChoice(text) ==
    /\ At("main.choice")
    /\ LET choice == Strip(text)
       IN  /\ choice = "1" =>
                Len(SelectSeq(lines, LAMBDA l : l # COLUMNS)) < MaxRows
           /\ op' = Prompt(CASE choice = "4" -> "exit"
                              [] choice = "1" -> "add.date"
                              [] choice = "2" -> "view.start"
                              [] choice = "3" -> "visualize.start"
                              [] OTHER -> "main.choice", text)
           /\ lines' = IF choice = "1" THEN InitializedFile(exists, lines)
                       ELSE lines
           /\ view' = IF choice = "4" THEN Said("Goodbye!")
                      ELSE IF choice \in {"1", "2", "3"} THEN NoView
                      ELSE Said("Invalid choice. Please enter 1-4.")
    /\ ret' = NoReturn
    /\ UNCHANGED exists

\* add(): the date prompt
AddDate(text) ==
    /\ At("add.date")
    /\ LET r == GetDate(text, TRUE)
       IN  /\ op' = IF r.ok
                    THEN [Prompt("add.amount", text) EXCEPT !.entry = <<r.value>>]
                    ELSE Prompt(op.name, text)
           /\ view' = Said(r.message)
    /\ UNCHANGED <<exists, lines, ret>>

\* add(): the amount prompt
AddAmount(text) ==
    /\ At("add.amount")
    /\ LET r == GetAmount(text)
       IN  /\ op' = IF r.ok
                    THEN [Prompt("add.category", text) EXCEPT
                             !.entry = Append(op.entry, r.value)]
                    ELSE Prompt(op.name, text)
           /\ view' = Said(r.message)
    /\ UNCHANGED <<exists, lines, ret>>

\* add(): the category prompt
AddCategory(text) ==
    /\ At("add.category")
    /\ LET r == GetCategory(text)
       IN  /\ op' = IF r.ok
                    THEN [Prompt("add.description", text) EXCEPT
                             !.entry = Append(op.entry, r.value)]
                    ELSE Prompt(op.name, text)
           /\ view' = Said(r.message)
    /\ UNCHANGED <<exists, lines, ret>>

\* add(): the description prompt, then store.add_entry
AddDescription(text) ==
    /\ At("add.description")
    /\ lines' = Append(lines,
                       WriteRow([date |-> op.entry[1], amount |-> op.entry[2],
                                 category |-> op.entry[3],
                                 description |-> GetDescription(text)]))
    /\ exists' = TRUE
    /\ op' = MainPrompt(text)
    /\ view' = NoView
    /\ UNCHANGED ret

\* the first date prompt of choice 2 and of visualize_menu
StartDate(text) ==
    /\ At("view.start") \/ At("visualize.start")
    /\ LET r == GetDate(text, FALSE)
       IN  /\ op' = IF r.ok
                    THEN [Prompt(IF At("view.start") THEN "view.end"
                                 ELSE "visualize.end", text)
                             EXCEPT !.start = r.value]
                    ELSE Prompt(op.name, text)
           /\ view' = Said(r.message)
    /\ UNCHANGED <<exists, lines, ret>>

\* the second date prompt of choice 2, then store.get_transactions
ViewEndDate(text) ==
    /\ At("view.end")
    /\ LET r == GetDate(text, FALSE)
       IN  IF r.ok
           THEN /\ op' = MainPrompt(text)
                /\ lines' = InitializedFile(exists, lines)
                /\ ret' \in GetTransactionsDfOf(lines', op.start, r.value)
                /\ view' = IF ret'.status # "ok" \/ ret'.rows = <<>>
                           THEN Said("No transactions found in the given date range.")
                           ELSE [NoView EXCEPT
                                   !.name = "summary",
                                   !.total_income = TotalOf(ret'.rows, INCOME),
                                   !.total_expense = TotalOf(ret'.rows, EXPENSE),
                                   !.net_savings = TotalOf(ret'.rows, INCOME)
                                                   - TotalOf(ret'.rows, EXPENSE)]
           ELSE /\ op' = Prompt(op.name, text)
                /\ view' = Said(r.message)
                /\ UNCHANGED <<lines, ret>>
    /\ UNCHANGED exists

\* the second date prompt of visualize_menu, then store.get_transactions_df;
\* an empty frame returns to the main menu
VisualizeEndDate(text) ==
    /\ At("visualize.end")
    /\ LET r == GetDate(text, FALSE)
       IN  IF r.ok
           THEN /\ lines' = InitializedFile(exists, lines)
                /\ ret' \in GetTransactionsDfOf(lines', op.start, r.value)
                /\ op' = IF ret'.rows = <<>> THEN MainPrompt(text)
                         ELSE [Prompt("visualize.choice", text)
                                  EXCEPT !.end = r.value]
                /\ view' = IF ret'.rows = <<>>
                           THEN Said("No data to visualize for this date range.")
                           ELSE NoView
           ELSE /\ op' = Prompt(op.name, text)
                /\ view' = Said(r.message)
                /\ UNCHANGED <<lines, ret>>
    /\ UNCHANGED exists

\* visualize_menu(): one pass of the menu loop, with what the bar chart and
\* the pie charts show; of the other figures the model keeps here which one
\* was shown
VisualizeChoice(text) ==
    /\ At("visualize.choice")
    /\ LET choice == Strip(text)
       IN  /\ op' = IF choice = "8" THEN MainPrompt(text)
                    ELSE Prompt(op.name, text)
           /\ view' = IF choice = "8" THEN NoView
                      ELSE IF choice = "1"
                           THEN [NoView EXCEPT
                                    !.name = MenuOptions[choice],
                                    !.summary = GroupByCategory(ret.rows)]
                      ELSE IF choice = "4"
                           THEN CategoryPieChartOf(ret.rows, EXPENSE)
                      ELSE IF choice = "5"
                           THEN CategoryPieChartOf(ret.rows, INCOME)
                      ELSE IF choice \in DOMAIN MenuOptions
                           THEN [NoView EXCEPT !.name = MenuOptions[choice]]
                      ELSE Said("Invalid choice.")
    /\ UNCHANGED <<exists, lines, ret>>

NextShell ==
    \/ Main
    \/ \E text \in MainInputs : MainChoice(text)
    \/ \E text \in DateInputs : AddDate(text)
    \/ \E text \in AmountInputs : AddAmount(text)
    \/ \E text \in CategoryInputs : AddCategory(text)
    \/ \E text \in DescriptionInputs : AddDescription(text)
    \/ \E text \in DateInputs : StartDate(text)
    \/ \E text \in DateInputs : ViewEndDate(text)
    \/ \E text \in DateInputs : VisualizeEndDate(text)
    \/ \E text \in VisualizeInputs : VisualizeChoice(text)

SpecShell == InitShell /\ [][NextShell]_vars


----------------------------------------------------------------------------
(* Properties of the interactive shell, under SpecShell *)

DatePrompts == {"add.date", "view.start", "view.end", "visualize.start",
                "visualize.end"}

MenuPrompts == {"main.choice", "visualize.choice"}

\* the prompt steps that accept only some texts
PromptSteps == DatePrompts \cup MenuPrompts \cup {"add.amount", "add.category"}

\* the text is a calendar date in day-month-year form, or nothing where the
\* prompt offers today's date
ValidDate(step, text) ==
    \/ step = "add.date" /\ Strip(text) = ""
    \/ /\ Strip(text) \in DOMAIN DateFields
       /\ LET f == DateFields[Strip(text)]
          IN  /\ f[2] \in 1..12
              /\ f[1] \in 1..DaysInMonth(f[2], f[3])

\* the text is a number greater than 0
ValidAmount(text) ==
    /\ text \in DOMAIN FloatOf
    /\ FloatOf[text] # FloatNaN
    /\ FloatOf[text] > 0

\* the text is a category code, in either case
ValidCategory(text) == text \in {"I", "i", "E", "e"}

\* the text is one of the choices the menu lists
ValidChoice(step, text) ==
    Strip(text) \in (IF step = "main.choice" THEN {"1", "2", "3", "4"}
                     ELSE {"1", "2", "3", "4", "5", "6", "7", "8"})

ValidAt(step, text) ==
    CASE step \in DatePrompts -> ValidDate(step, text)
      [] step = "add.amount" -> ValidAmount(text)
      [] step = "add.category" -> ValidCategory(text)
      [] step \in MenuPrompts -> ValidChoice(step, text)
      [] OTHER -> TRUE

\* the shell stays where it is: same prompt step, same fields read so far,
\* same file
SamePrompt ==
    /\ op'.name = op.name
    /\ op'.entry = op.entry
    /\ op'.start = op.start
    /\ op'.end = op.end
    /\ lines' = lines

(* C12: an invalid text read at a prompt step (date, amount, category code, *)
(* menu choice) does not end the session and does not advance the flow: the *)
(* shell is at the same prompt step afterwards, so that a step is left only *)
(* by a valid text.                                                         *)
C12_InvalidInputRepeatsPrompt ==
    [][(op.name \in PromptSteps /\ ~ValidAt(op.name, op'.input))
          => SamePrompt]_vars

\* C12 for every text but nan at the amount prompt
ExceptNaN_C12 ==
    [][(op.name \in PromptSteps /\ ~ValidAt(op.name, op'.input)
        /\ ~(op.name = "add.amount" /\ op'.input = "nan"))
          => SamePrompt]_vars

\* the amount written in a line of the file
AmountOfLine(l) == CHOOSE a \in DOMAIN AmountText : AmountText[a] = l[2]

(* C13: from a missing or header-only file, after any sequence of          *)
(* interactive adds every row of the file has an amount > 0.               *)
C13_StoredAmountsPositive ==
    \A i \in 1..Len(lines) :
        lines[i] # COLUMNS =>
            /\ AmountOfLine(lines[i]) # FloatNaN
            /\ AmountOfLine(lines[i]) > 0

\* C13 for the values <= 0: read at the amount prompt, such a value leaves
\* the shell at the amount prompt and the file as it was
NonPositiveRejected_C13 ==
    [][(op.name = "add.amount" /\ op'.input \in DOMAIN FloatOf
        /\ FloatOf[op'.input] # FloatNaN /\ FloatOf[op'.input] <= 0)
          => SamePrompt]_vars

\* C13 for the rows that hold a number
NumbersStoredPositive_C13 ==
    \A i \in 1..Len(lines) :
        (lines[i] # COLUMNS /\ AmountOfLine(lines[i]) # FloatNaN)
            => AmountOfLine(lines[i]) > 0


----------------------------------------------------------------------------
(* Properties of the summary of an empty load, under Spec *)

\* the file holds the header line and no row
HeaderOnly == lines = <<COLUMNS>>

\* the load on the header-only file returned an empty frame and no error
EmptyLoad == HeaderOnly /\ IsLoad /\ ret = Frame(<<>>)

\* get_transactions returned and no other summary or figure was asked for
AfterGetTransactions ==
    op.name = "get_transactions" /\ view.name \in {"none", "summary"}

(* C14, as claimed: the load on a header-only file returns an empty result *)
(* without error, and the summary of that result is a value: income 0,     *)
(* expense 0, net 0, transaction count 0 and an undefined date range.      *)
C14_EmptySummaryIsZeroTotals ==
    /\ (HeaderOnly /\ IsLoad) => ret = Frame(<<>>)
    /\ (EmptyLoad /\ AfterGetTransactions) => view.name = "summary"
    /\ (EmptyLoad /\ view.name = "print_summary") =>
          /\ view.printed = "FINANCIAL SUMMARY"
          /\ view.total_income = 0
          /\ view.total_expense = 0
          /\ view.net_savings = 0
          /\ view.num_transactions = 0
          /\ view.date_range = <<>>

(* C14, amended: the load on a header-only file returns an empty result    *)
(* without error, and the summary of that result computes no totals, no    *)
(* transaction count and no date range: it prints that there is no data    *)
(* and returns nothing, without error.                                     *)
C14_EmptySummaryIsNoData ==
    /\ (HeaderOnly /\ IsLoad) => ret = Frame(<<>>)
    /\ (EmptyLoad /\ AfterGetTransactions) => view.name # "summary"
    /\ (EmptyLoad /\ view.name = "print_summary") =>
          view = [NoView EXCEPT !.name = "print_summary",
                                !.printed = "No data available."]

\* print_summary ran on the empty result of a load of the header-only file
C14_Witness == EmptyLoad /\ view.name = "print_summary"


----------------------------------------------------------------------------
(* Properties of the dashboard, under SpecAgg *)

IsDashboard == view.name = "dashboard" /\ ret.rows # <<>>

\* the last value of the cumulative savings series of the dashboard
LastCumulative == view.series[Len(view.series)].cumulative

RECURSIVE AmountsOutside(_, _)
\* the sum of the amounts of the records whose category is not in cs
AmountsOutside(rows, cs) ==
    IF rows = <<>> THEN 0
    ELSE (IF Head(rows).category \in cs THEN 0 ELSE Head(rows).amount)
         + AmountsOutside(Tail(rows), cs)

\* the net savings of the title: the Income total minus the Expense total
TitleIsNetSavings ==
    view.net_savings = AmountsWhere(ret.rows, "Income")
                       - AmountsWhere(ret.rows, "Expense")

(* C15, as claimed: for every record set that is not empty, the last value *)
(* of the dashboard's cumulative savings series equals the net savings of  *)
(* its title, the Income total minus the Expense total.                    *)
C15_LastCumulativeIsNetSavings ==
    IsDashboard => (TitleIsNetSavings /\ LastCumulative = view.net_savings)

(* C15, amended: for every record set that is not empty, the last value of *)
(* the dashboard's cumulative savings series equals the net savings of its *)
(* title minus the total amount of the records whose category is neither   *)
(* Income nor Expense; the two are equal when every record is Income or    *)
(* Expense.                                                                *)
C15_LastCumulativeIsNetOfAll ==
    IsDashboard =>
        /\ TitleIsNetSavings
        /\ LastCumulative
              = view.net_savings - AmountsOutside(ret.rows, {"Income", "Expense"})
        /\ (\A i \in 1..Len(ret.rows) :
                ret.rows[i].category \in {"Income", "Expense"})
              => LastCumulative = view.net_savings

\* a dashboard of an Income record and a record of another category: the
\* series ends below the net savings of the title
C15_Witness ==
    /\ IsDashboard
    /\ Len(ret.rows) = 2
    /\ \E i, j \in 1..2 :
          /\ ret.rows[i].category = "Income"
          /\ ret.rows[j].category = "Transfer"
    /\ LastCumulative < view.net_savings

\* a dashboard of Income and Expense records only
OnlyIncomeAndExpense_C15 ==
    /\ IsDashboard
    /\ Len(ret.rows) = 2
    /\ ret.rows[1].category = "Expense"
    /\ ret.rows[2].category = "Income"
    /\ LastCumulative = view.net_savings


----------------------------------------------------------------------------
(* Properties of the pie chart of a category, under SpecShell *)

\* a pie chart of a category that has records is shown
IsBreakdown ==
    /\ view.name = "category_pie_chart"
    /\ view.printed \in {"Income Breakdown by Description",
                         "Expense Breakdown by Description"}

\* the category of the pie chart shown
BreakdownCategory ==
    IF view.printed = "Income Breakdown by Description" THEN "Income"
    ELSE "Expense"

RECURSIVE SumOfEntries(_)
\* the sum of the totals of the entries of a breakdown
SumOfEntries(entries) ==
    IF entries = <<>> THEN 0
    ELSE Head(entries).amount + SumOfEntries(Tail(entries))

RECURSIVE NumbersWhere(_, _)
\* the sum of the amounts, those that are numbers, of the records of category c
NumbersWhere(rows, c) ==
    IF rows = <<>> THEN 0
    ELSE (IF Head(rows).category = c /\ Head(rows).amount # FloatNaN
          THEN Head(rows).amount ELSE 0)
         + NumbersWhere(Tail(rows), c)

(* C16: for every record set loaded from the file and every category, the  *)
(* totals per description of the breakdown sum to the total amount of the  *)
(* records of the category, so that no record is left out, a record added  *)
(* with an empty description included.                                     *)
C16_BreakdownCoversCategory ==
    IsBreakdown =>
        SumOfEntries(view.by_desc) = NumbersWhere(ret.rows, BreakdownCategory)

\* C16 on a record set in which no description is missing
WithoutMissingDescription_C16 ==
    (\A i \in 1..Len(ret.rows) : ret.rows[i].description # NaN)
        => C16_BreakdownCoversCategory

====
